---- MODULE Spec2Model ----
(***************************************************************************)
(* Model of rp2040-hal/src/pio.rs: the PIO block wrapper (instruction      *)
(* memory allocator), the state machine register primitives and the        *)
(* PIOBuilder configuration / build sequence.                              *)
(*                                                                         *)
(* A u32 / u8 register value is modelled as the set of its set bit         *)
(* positions (TLC integers are 32 bit signed, so 2^32 - 1 is not an        *)
(* integer TLC can hold); &, |, << and - 1 are defined on that encoding    *)
(* with the width of the Rust type.                                        *)
(***************************************************************************)
EXTENDS Integers, Sequences, FiniteSets, TLC

\* ------------------------------------------------------------------ bounds
\* number of add_program calls made on one controller in a behaviour
MaxCalls == 3
\* number of state machine primitive calls made in a behaviour
MaxUnitCalls == 2
\* number of builder and build calls made in a behaviour
MaxBuildCalls == 4

\* ------------------------------------------------------- program constants
PIO_INSTRUCTION_COUNT == 32
\* width of the used_instruction_space cell (u32) and of its shifts
WordBits == 32
\* number of state machines of one PIO block
NumSM == 4

Slots == 0 .. (PIO_INSTRUCTION_COUNT - 1)
U32 == SUBSET (0 .. (WordBits - 1))
SMIds == 0 .. (NumSM - 1)

\* --------------------------------------------------- Option / panic results
None == [tag |-> "None", val |-> 0]
Some(v) == [tag |-> "Some", val |-> v]
\* arithmetic overflow panic of a build with overflow checks on
Panicked == [tag |-> "Panic", val |-> 0]

\* ------------------------------------------------------ u32 bit arithmetic
SetMin(S) == CHOOSE x \in S : \A y \in S : x <= y

\* x << n on a u32 for n < 32: bits shifted past bit 31 are dropped
Shl32(x, n) == {k + n : k \in x} \cap (0 .. (WordBits - 1))

\* x - 1 on a non-zero u32: the lowest set bit is cleared, the bits below set
Dec32(x) == LET low == SetMin(x) IN (x \ {low}) \cup (0 .. (low - 1))

\* `1 << n` with n a usize, on a u32: a shift by >= 32 panics with overflow
\* checks on and shifts by n mod 32 with them off.
OneShl(n, overflow_chk) ==
    IF n >= WordBits /\ overflow_chk
        THEN [panic |-> TRUE, val |-> {}]
        ELSE [panic |-> FALSE, val |-> Shl32({0}, n % WordBits)]

\* `(1 << len) - 1`
LenMask(len, overflow_chk) ==
    LET one == OneShl(len, overflow_chk) IN
    IF one.panic THEN one ELSE [panic |-> FALSE, val |-> Dec32(one.val)]

\* `mask << n` with the same overflow rule as OneShl
MaskShl(mask, n, overflow_chk) ==
    IF n >= WordBits /\ overflow_chk
        THEN [panic |-> TRUE, val |-> {}]
        ELSE [panic |-> FALSE, val |-> Shl32(mask, n % WordBits)]

\* the candidate offsets of the automatic scan: `(32 - len)..=0`, an inclusive
\* range that is empty when its start exceeds its end
ScanRange(len) == (32 - len) .. 0

\* PIO::find_offset_for_instructions(&self, i, origin)
find_offset_for_instructions(used, len, origin, overflow_chk) ==
    IF len > PIO_INSTRUCTION_COUNT THEN None
    ELSE LET mask == LenMask(len, overflow_chk) IN
         IF mask.panic THEN Panicked
         ELSE IF origin.tag = "Some"
              THEN IF origin.val > PIO_INSTRUCTION_COUNT - len THEN None
                   ELSE LET sh == MaskShl(mask.val, origin.val, overflow_chk) IN
                        IF sh.panic THEN Panicked
                        ELSE IF (used \cap sh.val) # {} THEN None
                        ELSE Some(origin.val)
              ELSE LET fits == {i \in ScanRange(len) :
                                  (used \cap Shl32(mask.val, i)) = {}} IN
                   IF fits = {} THEN None ELSE Some(SetMin(fits))

\* the bits add_program ORs into used_instruction_space:
\* `(1 << instructions.len()) - 1`
ReservedBits(len, offset, overflow_chk) == LenMask(len, overflow_chk)

\* add_program gone wrong: the words are written from slot 0, the offset
\* is not added to the index
add_program_no_offset(used, mem, instructions, origin, overflow_chk) ==
    LET len == Len(instructions)
        r == find_offset_for_instructions(used, len, origin, overflow_chk)
    IN  IF r.tag = "Some"
        THEN LET bits == ReservedBits(len, r.val, overflow_chk)
                 written == [k \in Slots |->
                               IF k < len THEN instructions[k + 1] ELSE mem[k]]
             IN  IF bits.panic
                 THEN [result |-> Panicked, used |-> used, mem |-> written]
                 ELSE [result |-> r, used |-> used \cup bits.val, mem |-> written]
        ELSE [result |-> r, used |-> used, mem |-> mem]

\* add_program gone wrong: the bitmap is set to the new bits, the bits set
\* before are not kept
add_program_overwrite(used, mem, instructions, origin, overflow_chk) ==
    LET len == Len(instructions)
        r == find_offset_for_instructions(used, len, origin, overflow_chk)
    IN  IF r.tag = "Some"
        THEN LET bits == ReservedBits(len, r.val, overflow_chk)
                 written == [k \in Slots |->
                               IF k >= r.val /\ k < r.val + len
                                   THEN instructions[k - r.val + 1]
                                   ELSE mem[k]]
             IN  IF bits.panic
                 THEN [result |-> Panicked, used |-> used, mem |-> written]
                 ELSE [result |-> r, used |-> bits.val, mem |-> written]
        ELSE [result |-> r, used |-> used, mem |-> mem]

\* PIO::add_program(&self, instructions, origin): the result and the new
\* instruction memory and bitmap
add_program(used, mem, instructions, origin, overflow_chk) ==
    LET len == Len(instructions)
        r == find_offset_for_instructions(used, len, origin, overflow_chk)
    IN  IF r.tag = "Some"
        THEN LET bits == ReservedBits(len, r.val, overflow_chk)
                 written == [k \in Slots |->
                               IF k >= r.val /\ k < r.val + len
                                   THEN instructions[k - r.val + 1]
                                   ELSE mem[k]]
             IN  IF bits.panic
                 THEN [result |-> Panicked, used |-> used, mem |-> written]
                 ELSE [result |-> r, used |-> used \cup bits.val, mem |-> written]
        ELSE [result |-> r, used |-> used, mem |-> mem]

\* ------------------------------------------------- state machine primitives
\* the CTRL register written with no field set: `write` starts from the
\* register's reset value, in which every field is 0
CtrlReset == [sm_enable |-> {}, sm_restart |-> {}, clkdiv_restart |-> {}]

\* a value given to the `bits` method of a 4 bit field writer
Field4(bits) == bits \cap SMIds

\* sm_enable_bits gone wrong: the bits read from the register are dropped
sm_enable_bits_overwrite(bits, id, enabled) == IF enabled THEN {id} ELSE {}

\* sm_enable_bits gone wrong: the unit's bit is never cleared
sm_enable_bits_no_clear(bits, id, enabled) ==
    bits \cup (IF enabled THEN {id} ELSE {})

\* set_enabled, line 116: (bits & !(1 << id)) | ((enabled as u8) << id)
sm_enable_bits(bits, id, enabled) ==
    (bits \cap ((0 .. 7) \ {id})) \cup (IF enabled THEN {id} ELSE {})

\* set_enabled, lines 117-119: the value the CTRL write stores, from the
\* sm_enable bits read at line 115
set_enabled_write(bits, id, enabled) ==
    [CtrlReset EXCEPT !.sm_enable = Field4(sm_enable_bits(bits, id, enabled))]

\* StateMachine::set_enabled(&self, enabled), read and write in one step
set_enabled(c, id, enabled) == set_enabled_write(c.sm_enable, id, enabled)

\* StateMachine::restart(&self)
restart(c, id) ==
    [CtrlReset EXCEPT !.sm_restart = Field4(c.sm_restart \cup {id})]

\* StateMachine::reset_clock(&self)
reset_clock(c, id) ==
    [CtrlReset EXCEPT !.clkdiv_restart = Field4(c.clkdiv_restart \cup {id})]

\* An f32 divisor is modelled by the integer number of 1/DivScale units it
\* holds; the values used are all exactly representable in an f32.
DivScale == 4 * 256
U16Max == (2 ^ 16) - 1
U8Max == (2 ^ 8) - 1
Clamp(x, hi) == IF x < 0 THEN 0 ELSE IF x > hi THEN hi ELSE x

\* DivisorInt gone wrong: the divisor is rounded to the nearest integer
DivisorInt_rounded(q) == Clamp((q + (DivScale \div 2)) \div DivScale, U16Max)

\* `divisor as u16`: truncation toward zero, saturating
DivisorInt(q) == Clamp(q \div DivScale, U16Max)

\* `(divisor.fract() * 256.0) as u8`
DivisorFrac(q) == Clamp(((q % DivScale) * 256) \div DivScale, U8Max)

\* StateMachine::set_clock_divisor(&self, divisor): the SM_CLKDIV value
set_clock_divisor(q) == [int |-> DivisorInt(q), frac |-> DivisorFrac(q)]

\* the forced instruction executes at once; a JMP with condition "always"
\* (bits 15..13 and 7..5 clear) loads the program counter from bits 4..0
exec_forced(addr, instr) ==
    IF (instr \div (2 ^ 13)) = 0 /\ ((instr \div 32) % 8) = 0
        THEN instr % 32
        ELSE addr

\* the default builder gone wrong: no out pins
PIOBuilder_default_no_out_pins ==
    [instructions |-> << >>, instruction_offset |-> None,
     wrap_top |-> 0, wrap_bottom |-> 31,
     side_en |-> FALSE, side_pindir |-> FALSE, jmp_pin |-> 0,
     out_sticky |-> FALSE, inline_out_en |-> FALSE, out_en_sel |-> 0,
     status_sel |-> FALSE,
     in_base |-> 0, out_base |-> 0, out_count |-> 0,
     set_base |-> 0, set_count |-> 0,
     sideset_base |-> 0, sideset_count |-> 0,
     fjoin_rx |-> FALSE, fjoin_tx |-> FALSE,
     autopull |-> FALSE, autopush |-> FALSE,
     pull_thresh |-> 32, push_thresh |-> 32,
     in_shiftdir |-> TRUE, out_shiftdir |-> TRUE,
     clock_divisor |-> DivScale]

\* the default builder gone wrong: the shift direction flags start cleared
PIOBuilder_default_shift_left ==
    [instructions |-> << >>, instruction_offset |-> None,
     wrap_top |-> 0, wrap_bottom |-> 31,
     side_en |-> FALSE, side_pindir |-> FALSE, jmp_pin |-> 0,
     out_sticky |-> FALSE, inline_out_en |-> FALSE, out_en_sel |-> 0,
     status_sel |-> FALSE,
     in_base |-> 0, out_base |-> 0, out_count |-> 32,
     set_base |-> 0, set_count |-> 0,
     sideset_base |-> 0, sideset_count |-> 0,
     fjoin_rx |-> FALSE, fjoin_tx |-> FALSE,
     autopull |-> FALSE, autopush |-> FALSE,
     pull_thresh |-> 32, push_thresh |-> 32,
     in_shiftdir |-> FALSE, out_shiftdir |-> FALSE,
     clock_divisor |-> DivScale]

\* ------------------------------------------------------------- PIOBuilder
\* impl Default for PIOBuilder; clock_divisor 1.0 is DivScale units
PIOBuilder_default ==
    [instructions |-> << >>, instruction_offset |-> None,
     wrap_top |-> 0, wrap_bottom |-> 31,
     side_en |-> FALSE, side_pindir |-> FALSE, jmp_pin |-> 0,
     out_sticky |-> FALSE, inline_out_en |-> FALSE, out_en_sel |-> 0,
     status_sel |-> FALSE,
     in_base |-> 0, out_base |-> 0, out_count |-> 32,
     set_base |-> 0, set_count |-> 0,
     sideset_base |-> 0, sideset_count |-> 0,
     fjoin_rx |-> FALSE, fjoin_tx |-> FALSE,
     autopull |-> FALSE, autopush |-> FALSE,
     pull_thresh |-> 32, push_thresh |-> 32,
     in_shiftdir |-> TRUE, out_shiftdir |-> TRUE,
     clock_divisor |-> DivScale]

\* PIOBuilder::instructions(&mut self, instructions)
instructions(b, code) == [b EXCEPT !.instructions = code]

\* PIOBuilder::wrap(&mut self, top, bottom)
wrap(b, top, bottom) == [b EXCEPT !.wrap_top = top, !.wrap_bottom = bottom]

\* with_program gone wrong: the side-set bit count of the program is not
\* taken over
with_program_no_sideset_count(b, p) ==
    [wrap(instructions(b, p.code), p.wrap[1], p.wrap[2]) EXCEPT
        !.side_en = p.side_set.optional,
        !.side_pindir = p.side_set.pindirs]

\* PIOBuilder::with_program(&mut self, p): p is a pio::Program given by its
\* code(), wrap() pair and side_set() descriptor
with_program(b, p) ==
    [wrap(instructions(b, p.code), p.wrap[1], p.wrap[2]) EXCEPT
        !.side_en = p.side_set.optional,
        !.side_pindir = p.side_set.pindirs,
        !.sideset_count = p.side_set.bits]

\* buffers gone wrong: a join flag is set, the opposite one is left as it was
buffers_keep_other(b, mode) ==
    CASE mode = "RxTx"   -> [b EXCEPT !.fjoin_tx = FALSE, !.fjoin_rx = FALSE]
      [] mode = "OnlyTx" -> [b EXCEPT !.fjoin_tx = TRUE]
      [] mode = "OnlyRx" -> [b EXCEPT !.fjoin_rx = TRUE]

\* PIOBuilder::buffers(&mut self, buffers)
buffers(b, mode) ==
    CASE mode = "RxTx"   -> [b EXCEPT !.fjoin_tx = FALSE, !.fjoin_rx = FALSE]
      [] mode = "OnlyTx" -> [b EXCEPT !.fjoin_rx = FALSE, !.fjoin_tx = TRUE]
      [] mode = "OnlyRx" -> [b EXCEPT !.fjoin_rx = TRUE, !.fjoin_tx = FALSE]

\* PIOBuilder::clock_divisor(&mut self, divisor)
clock_divisor(b, q) == [b EXCEPT !.clock_divisor = q]

\* `offset as u8 + wrap`: a u8 sum past 255 panics with overflow checks on and
\* wraps with them off
AddU8(a, c, overflow_chk) ==
    IF a + c > U8Max /\ overflow_chk
        THEN [panic |-> TRUE, val |-> 0]
        ELSE [panic |-> FALSE, val |-> (a + c) % (U8Max + 1)]

\* a value given to the `bits` method of a field writer `width` bits wide
Field(v, width) == v % (2 ^ width)

\* the SM_EXECCTRL value gone wrong: the wrap bounds are written to each
\* other's field
execctrl_value_swapped(b, offset, overflow_chk) ==
    [wrap_top |-> Field(AddU8(offset, b.wrap_bottom, overflow_chk).val, 5),
     wrap_bottom |-> Field(AddU8(offset, b.wrap_top, overflow_chk).val, 5),
     side_en |-> b.side_en, side_pindir |-> b.side_pindir,
     jmp_pin |-> Field(b.jmp_pin, 5), out_sticky |-> b.out_sticky,
     inline_out_en |-> b.inline_out_en, out_en_sel |-> Field(b.out_en_sel, 5),
     status_sel |-> b.status_sel]

\* build, lines 360-383: the SM_EXECCTRL value written
execctrl_value(b, offset, overflow_chk) ==
    [wrap_top |-> Field(AddU8(offset, b.wrap_top, overflow_chk).val, 5),
     wrap_bottom |-> Field(AddU8(offset, b.wrap_bottom, overflow_chk).val, 5),
     side_en |-> b.side_en, side_pindir |-> b.side_pindir,
     jmp_pin |-> Field(b.jmp_pin, 5), out_sticky |-> b.out_sticky,
     inline_out_en |-> b.inline_out_en, out_en_sel |-> Field(b.out_en_sel, 5),
     status_sel |-> b.status_sel]

\* whether one of the two u8 sums of lines 362-363 overflows
execctrl_panics(b, offset, overflow_chk) ==
    \/ AddU8(offset, b.wrap_top, overflow_chk).panic
    \/ AddU8(offset, b.wrap_bottom, overflow_chk).panic

\* build, lines 385-406: the SM_PINCTRL value written
pinctrl_value(b) ==
    [in_base |-> Field(b.in_base, 5),
     out_base |-> Field(b.out_base, 5), out_count |-> Field(b.out_count, 6),
     set_base |-> Field(b.set_base, 5), set_count |-> Field(b.set_count, 3),
     sideset_base |-> Field(b.sideset_base, 5),
     sideset_count |-> Field(b.sideset_count, 3)]

\* build, lines 408-424: the SM_SHIFTCTRL value written
shiftctrl_value(b) ==
    [fjoin_rx |-> b.fjoin_rx, fjoin_tx |-> b.fjoin_tx,
     autopull |-> b.autopull, autopush |-> b.autopush,
     pull_thresh |-> Field(b.pull_thresh, 5),
     push_thresh |-> Field(b.push_thresh, 5),
     out_shiftdir |-> b.out_shiftdir, in_shiftdir |-> b.in_shiftdir]

\* build, lines 436-437: JMP 0 with the offset ORed in (offset <= 31 < 2^5,
\* so the OR into the zero word is the offset itself, cut to u16)
jmp_instr(offset) == offset % (2 ^ 16)

\* BuildError::NoSpace, Ok(()) (with the offset the build allocated, which
\* the caller does not see, kept for the properties)
NoSpace == [tag |-> "NoSpace", val |-> 0]
Ok(offset) == [tag |-> "Ok", val |-> offset]

\* one register write of build on unit id, in the hardware state hw; each
\* write is logged with the unit's enabled bit at the time of the write
build_step(hw, step, b, offset, id) ==
    LET logged == [hw EXCEPT !.log = Append(@, [reg |-> step, sm |-> id,
                                              en |-> id \in hw.ctrl.sm_enable])]
    IN  CASE step = "disable" ->
                [logged EXCEPT !.ctrl = set_enabled(hw.ctrl, id, FALSE)]
          [] step = "execctrl" ->
                [logged EXCEPT !.execctrl[id] = execctrl_value(b, offset, FALSE)]
          [] step = "pinctrl" ->
                [logged EXCEPT !.pinctrl[id] = pinctrl_value(b)]
          [] step = "shiftctrl" ->
                [logged EXCEPT !.shiftctrl[id] = shiftctrl_value(b)]
          [] step = "clkdiv" ->
                [logged EXCEPT !.clkdiv[id] = set_clock_divisor(b.clock_divisor)]
          [] step = "restart" ->
                [logged EXCEPT !.ctrl = restart(hw.ctrl, id)]
          [] step = "reset_clock" ->
                [logged EXCEPT !.ctrl = reset_clock(hw.ctrl, id)]
          [] step = "instr" ->
                [logged EXCEPT !.instr[id] = jmp_instr(offset),
                               !.addr[id] = exec_forced(hw.addr[id], jmp_instr(offset))]
          [] step = "enable" ->
                [logged EXCEPT !.ctrl = set_enabled(hw.ctrl, id, TRUE)]

\* the writes of build gone wrong: the unit is enabled before the jump to the
\* program start is forced
build_sequence_enable_early ==
    << "disable", "execctrl", "pinctrl", "shiftctrl", "clkdiv",
       "restart", "reset_clock", "enable", "instr" >>

\* the register writes of build after the allocation, in program order
\* (lines 357, 360, 385, 408, 426, 429, 430, 438, 441)
build_sequence ==
    << "disable", "execctrl", "pinctrl", "shiftctrl", "clkdiv",
       "restart", "reset_clock", "instr", "enable" >>

RECURSIVE run_steps(_, _, _, _, _)
run_steps(hw, steps, b, offset, id) ==
    IF steps = << >> THEN hw
    ELSE run_steps(build_step(hw, Head(steps), b, offset, id),
                   Tail(steps), b, offset, id)

\* build gone wrong: the unit is stopped before the program is placed
build_stop_first(hw, b, id, overflow_chk) ==
    LET a == add_program(hw.used, hw.mem, b.instructions,
                         b.instruction_offset, overflow_chk)
        h1 == run_steps([hw EXCEPT !.used = a.used, !.mem = a.mem, !.log = << >>],
                        << "disable" >>, b, 0, id)
    IN  IF a.result.tag = "None" THEN [result |-> NoSpace, hw |-> h1]
        ELSE IF a.result.tag = "Panic" THEN [result |-> Panicked, hw |-> h1]
        ELSE IF execctrl_panics(b, a.result.val, overflow_chk)
             THEN [result |-> Panicked, hw |-> h1]
             ELSE [result |-> Ok(a.result.val),
                   hw |-> run_steps(h1, Tail(build_sequence), b, a.result.val, id)]

\* PIOBuilder::build(self, pio, sm): the result and the hardware state left
build(hw, b, id, overflow_chk) ==
    LET a == add_program(hw.used, hw.mem, b.instructions,
                         b.instruction_offset, overflow_chk)
        h1 == [hw EXCEPT !.used = a.used, !.mem = a.mem, !.log = << >>]
    IN  IF a.result.tag = "None" THEN [result |-> NoSpace, hw |-> h1]
        ELSE IF a.result.tag = "Panic" THEN [result |-> Panicked, hw |-> h1]
        ELSE IF execctrl_panics(b, a.result.val, overflow_chk)
             THEN [result |-> Panicked,
                   hw |-> run_steps(h1, << "disable" >>, b, a.result.val, id)]
             ELSE [result |-> Ok(a.result.val),
                   hw |-> run_steps(h1, build_sequence, b, a.result.val, id)]

\* ------------------------------------------------------------------ inputs
\* a program of len instruction words, told apart by id
Code(id, len) == [i \in 1 .. len |-> id * 32 + (i - 1)]

\* the instruction slices given to add_program
AllocCodes == { << >>, Code(1, 1), Code(2, 5), Code(3, 16), Code(4, 32) }
\* the origins given to add_program
AllocOrigins == { None, Some(0), Some(5), Some(16), Some(27), Some(28) }

\* pio::Program values given to with_program
ProgramA == [code |-> Code(5, 5), wrap |-> << 0, 4 >>,
             side_set |-> [optional |-> FALSE, pindirs |-> FALSE, bits |-> 0]]
ProgramB == [code |-> Code(6, 5), wrap |-> << 1, 3 >>,
             side_set |-> [optional |-> TRUE, pindirs |-> FALSE, bits |-> 2]]
ProgramC == [code |-> Code(7, 32), wrap |-> << 0, 31 >>,
             side_set |-> [optional |-> FALSE, pindirs |-> TRUE, bits |-> 1]]
Programs == { ProgramA, ProgramB, ProgramC }

BufferModes == { "RxTx", "OnlyTx", "OnlyRx" }

\* f32 divisors in 1/DivScale units: 1.0, 2.5, 1 + 1/256, 3 + 255/256, 100.0,
\* 65535 + 255/256, 1 + 1/1024, 0.5 and 65536.0
Divisors == { DivScale, 2 * DivScale + 512, DivScale + 4, 3 * DivScale + 1020,
              100 * DivScale, 65535 * DivScale + 1020, DivScale + 1, 512,
              65536 * DivScale }
\* the divisors given to the builder
BuilderDivisors == { 2 * DivScale + 512, DivScale + 1 }

\* the two execution contexts of the set_enabled race
Contexts == { "ctxA", "ctxB" }

\* -------------------------------------------------------------------- state
VARIABLES
    overflow_checks,         \* build profile: arithmetic overflow panics or wraps
    panicked,                \* the program stopped in a panic
    used_instruction_space,  \* PIO.used_instruction_space
    instr_mem,               \* INSTR_MEM0..31
    ctrl,                    \* CTRL: sm_enable, sm_restart, clkdiv_restart
    sm_execctrl, sm_pinctrl, sm_shiftctrl, sm_clkdiv, sm_instr, sm_addr,
    builder,                 \* the PIOBuilder being set up
    writes,                  \* the register writes of the last build, in order
    last,                    \* the last call and its result
    reservations,            \* history: the successful reservations, in order
    build_log,               \* history: the builds made, in order
    calls,                   \* history: number of calls made
    ctx,                     \* the position of each racing context
    exclusive,               \* the caller serialises access to the block
    raced                    \* history: a set_enabled read overlapped another call

hwvars == << used_instruction_space, instr_mem, ctrl, sm_execctrl, sm_pinctrl,
             sm_shiftctrl, sm_clkdiv, sm_instr, sm_addr, writes >>
racevars == << ctx, exclusive, raced >>
vars == << overflow_checks, panicked, used_instruction_space, instr_mem, ctrl,
           sm_execctrl, sm_pinctrl, sm_shiftctrl, sm_clkdiv, sm_instr, sm_addr,
           builder, writes, last, reservations, build_log, calls,
           ctx, exclusive, raced >>

\* the hardware and allocator state as one record
HW == [used |-> used_instruction_space, mem |-> instr_mem, ctrl |-> ctrl,
       execctrl |-> sm_execctrl, pinctrl |-> sm_pinctrl,
       shiftctrl |-> sm_shiftctrl, clkdiv |-> sm_clkdiv,
       instr |-> sm_instr, addr |-> sm_addr, log |-> writes]

SetHW(hw) ==
    /\ used_instruction_space' = hw.used
    /\ instr_mem' = hw.mem
    /\ ctrl' = hw.ctrl
    /\ sm_execctrl' = hw.execctrl
    /\ sm_pinctrl' = hw.pinctrl
    /\ sm_shiftctrl' = hw.shiftctrl
    /\ sm_clkdiv' = hw.clkdiv
    /\ sm_instr' = hw.instr
    /\ sm_addr' = hw.addr
    /\ writes' = hw.log

\* no pio::Program: the program argument of a call that takes none
NoProgram == [code |-> << >>, wrap |-> << 0, 0 >>,
              side_set |-> [optional |-> FALSE, pindirs |-> FALSE, bits |-> 0]]

NoCall == [op |-> "none", sm |-> 0, code |-> << >>, origin |-> None,
           flag |-> FALSE, q |-> 0, result |-> None,
           mode |-> "", prog |-> NoProgram]

IdleCtx == [pc |-> "idle", id |-> 0, enabled |-> FALSE, bits |-> {}]

\* PIO::new sets the bitmap to 0 and touches no register: what new() leaves
\* besides the CTRL register
InitBut ==
    /\ overflow_checks \in BOOLEAN
    /\ panicked = FALSE
    /\ used_instruction_space = {}
    /\ instr_mem = [k \in Slots |-> 0]
    /\ sm_execctrl = [i \in SMIds |->
          [wrap_top |-> 31, wrap_bottom |-> 0, side_en |-> FALSE,
           side_pindir |-> FALSE, jmp_pin |-> 0, out_sticky |-> FALSE,
           inline_out_en |-> FALSE, out_en_sel |-> 0, status_sel |-> FALSE]]
    /\ sm_pinctrl = [i \in SMIds |->
          [in_base |-> 0, out_base |-> 0, out_count |-> 0, set_base |-> 0,
           set_count |-> 5, sideset_base |-> 0, sideset_count |-> 0]]
    /\ sm_shiftctrl = [i \in SMIds |->
          [fjoin_rx |-> FALSE, fjoin_tx |-> FALSE, autopull |-> FALSE,
           autopush |-> FALSE, pull_thresh |-> 0, push_thresh |-> 0,
           out_shiftdir |-> TRUE, in_shiftdir |-> TRUE]]
    /\ sm_clkdiv = [i \in SMIds |-> [int |-> 1, frac |-> 0]]
    /\ sm_instr = [i \in SMIds |-> 0]
    /\ sm_addr = [i \in SMIds |-> 0]
    /\ builder = PIOBuilder_default
    /\ writes = << >>
    /\ last = NoCall
    /\ reservations = << >>
    /\ build_log = << >>
    /\ calls = 0
    /\ ctx = [c \in Contexts |-> IdleCtx]
    /\ exclusive \in BOOLEAN
    /\ raced = FALSE

\* PIO::new on a block out of reset: CTRL holds its reset value
Init == InitBut /\ ctrl = CtrlReset

\* PIO::new on a block whose units were enabled or disabled before it was
\* handed over (new() writes no register; free() gives the block back)
InitHandedOver ==
    InitBut /\ \E en \in SUBSET SMIds : ctrl = [CtrlReset EXCEPT !.sm_enable = en]

\* ------------------------------------------------------------------ actions
Call(op) == [NoCall EXCEPT !.op = op]

\* a call of PIO::add_program(instructions, origin)
AddProgram(code, origin) ==
    /\ ~panicked
    /\ calls < MaxCalls
    /\ LET a == add_program(used_instruction_space, instr_mem, code, origin,
                            overflow_checks)
       IN  /\ used_instruction_space' = a.used
           /\ instr_mem' = a.mem
           /\ panicked' = (a.result.tag = "Panic")
           /\ reservations' =
                  IF a.result.tag = "Some"
                      THEN Append(reservations,
                                  [offset |-> a.result.val, len |-> Len(code)])
                      ELSE reservations
           /\ last' = [Call("add_program") EXCEPT
                          !.code = code, !.origin = origin, !.result = a.result]
    /\ calls' = calls + 1
    /\ UNCHANGED << overflow_checks, ctrl, sm_execctrl, sm_pinctrl, sm_shiftctrl,
                    sm_clkdiv, sm_instr, sm_addr, builder, writes, build_log,
                    racevars >>

\* a call of StateMachine::set_enabled(enabled) on unit id
SetEnabled(id, enabled) ==
    /\ ~panicked
    /\ calls < MaxUnitCalls
    /\ ctrl' = set_enabled(ctrl, id, enabled)
    /\ last' = [Call("set_enabled") EXCEPT !.sm = id, !.flag = enabled]
    /\ calls' = calls + 1
    /\ UNCHANGED << overflow_checks, panicked, used_instruction_space, instr_mem,
                    sm_execctrl, sm_pinctrl, sm_shiftctrl, sm_clkdiv, sm_instr,
                    sm_addr, builder, writes, reservations, build_log, racevars >>

\* a call of StateMachine::set_clock_divisor(divisor) on unit id
SetClockDivisor(id, q) ==
    /\ ~panicked
    /\ calls < MaxUnitCalls
    /\ sm_clkdiv' = [sm_clkdiv EXCEPT ![id] = set_clock_divisor(q)]
    /\ last' = [Call("set_clock_divisor") EXCEPT !.sm = id, !.q = q]
    /\ calls' = calls + 1
    /\ UNCHANGED << overflow_checks, panicked, used_instruction_space, instr_mem,
                    ctrl, sm_execctrl, sm_pinctrl, sm_shiftctrl, sm_instr,
                    sm_addr, builder, writes, reservations, build_log, racevars >>

\* a builder method, recorded as call: only the builder changes
BuilderCallWith(call, b) ==
    /\ ~panicked
    /\ calls < MaxBuildCalls
    /\ builder' = b
    /\ last' = call
    /\ calls' = calls + 1
    /\ UNCHANGED << overflow_checks, panicked, hwvars, reservations, build_log,
                    racevars >>

BuilderCall(op, b) == BuilderCallWith(Call(op), b)

\* PIOBuilder::default(): a freshly constructed builder
NewBuilder == BuilderCall("default", PIOBuilder_default)
WithProgram(p) ==
    BuilderCallWith([Call("with_program") EXCEPT !.prog = p],
                    with_program(builder, p))
Instructions(code) == BuilderCall("instructions", instructions(builder, code))
Wrap(top, bottom) == BuilderCall("wrap", wrap(builder, top, bottom))
Buffers(mode) ==
    BuilderCallWith([Call("buffers") EXCEPT !.mode = mode],
                    buffers(builder, mode))
ClockDivisor(q) == BuilderCall("clock_divisor", clock_divisor(builder, q))

\* the reserved ranges of the history h, as a set of slots
ReservedSlots(h) ==
    { k \in Slots : \E i \in 1 .. Len(h) :
                       k >= h[i].offset /\ k < h[i].offset + h[i].len }

\* some window of len contiguous slots is free of the slots in taken
WindowFree(taken, len) ==
    \E o \in 0 .. (PIO_INSTRUCTION_COUNT - len) :
        \A k \in o .. (o + len - 1) : k \notin taken

\* a call of PIOBuilder::build(pio, sm) with the builder as set up, on unit
\* id; build takes the builder by value, the next one is a fresh default()
Build(id) ==
    /\ ~panicked
    /\ calls < MaxBuildCalls
    /\ LET r == build(HW, builder, id, overflow_checks)
           a == add_program(used_instruction_space, instr_mem,
                            builder.instructions, builder.instruction_offset,
                            overflow_checks)
           len == Len(builder.instructions)
       IN  /\ SetHW(r.hw)
           /\ panicked' = (r.result.tag = "Panic")
           /\ reservations' =
                  IF a.result.tag = "Some"
                      THEN Append(reservations,
                                  [offset |-> a.result.val, len |-> len])
                      ELSE reservations
           /\ build_log' = Append(build_log,
                  [sm |-> id, code |-> builder.instructions,
                   fit |-> len >= 1 /\ WindowFree(ReservedSlots(reservations), len),
                   result |-> r.result])
           /\ last' = [Call("build") EXCEPT
                          !.sm = id, !.code = builder.instructions,
                          !.origin = builder.instruction_offset,
                          !.result = r.result]
    /\ builder' = PIOBuilder_default
    /\ calls' = calls + 1
    /\ UNCHANGED << overflow_checks, racevars >>

\* ---- set_enabled run by two contexts, its register read (line 115) and its
\* ---- register write (lines 117-119) as separate steps
Others(c) == Contexts \ {c}

RaceCall(c, id, enabled) ==
    /\ ~panicked
    /\ calls < MaxUnitCalls
    /\ ctx[c].pc = "idle"
    /\ exclusive => \A o \in Others(c) : ctx[o].pc \in {"idle", "done"}
    /\ \A o \in Others(c) : ctx[o].pc # "idle" => ctx[o].id # id
    /\ ctx' = [ctx EXCEPT ![c] = [pc |-> "called", id |-> id,
                                  enabled |-> enabled, bits |-> {}]]
    /\ calls' = calls + 1
    /\ UNCHANGED << overflow_checks, panicked, hwvars, builder, last,
                    reservations, build_log, exclusive, raced >>

RaceRead(c) ==
    /\ ctx[c].pc = "called"
    /\ ctx' = [ctx EXCEPT ![c].pc = "read", ![c].bits = ctrl.sm_enable]
    /\ raced' = (raced \/ \E o \in Others(c) : ctx[o].pc = "read")
    /\ UNCHANGED << overflow_checks, panicked, hwvars, builder, last,
                    reservations, build_log, calls, exclusive >>

RaceWrite(c) ==
    /\ ctx[c].pc = "read"
    /\ ctrl' = set_enabled_write(ctx[c].bits, ctx[c].id, ctx[c].enabled)
    /\ ctx' = [ctx EXCEPT ![c].pc = "done"]
    /\ UNCHANGED << overflow_checks, panicked, used_instruction_space, instr_mem,
                    sm_execctrl, sm_pinctrl, sm_shiftctrl, sm_clkdiv, sm_instr,
                    sm_addr, builder, writes, last, reservations, build_log,
                    calls, exclusive, raced >>

\* ----------------------------------------------------------- specifications
NextAlloc == \E code \in AllocCodes, origin \in AllocOrigins : AddProgram(code, origin)

NextUnit ==
    \/ \E id \in SMIds, enabled \in BOOLEAN : SetEnabled(id, enabled)
    \/ \E id \in SMIds, q \in Divisors : SetClockDivisor(id, q)

\* the (top, bottom) pairs given to wrap: one inside the program, one past
\* the 32 word instruction memory
WrapBounds == { << 2, 3 >>, << 40, 3 >> }

NextBuild ==
    \/ NewBuilder
    \/ \E p \in Programs : WithProgram(p)
    \/ \E code \in { Code(1, 1) } : Instructions(code)
    \/ \E w \in WrapBounds : Wrap(w[1], w[2])
    \/ \E mode \in BufferModes : Buffers(mode)
    \/ \E q \in BuilderDivisors : ClockDivisor(q)
    \/ \E id \in SMIds : Build(id)

NextRace ==
    \/ \E c \in Contexts, id \in SMIds, enabled \in BOOLEAN : RaceCall(c, id, enabled)
    \/ \E c \in Contexts : RaceRead(c)
    \/ \E c \in Contexts : RaceWrite(c)

Next == NextAlloc \/ NextUnit \/ NextBuild \/ NextRace

\* every operation
Spec == Init /\ [][Next]_vars
\* the allocator alone
SpecAlloc == Init /\ [][NextAlloc]_vars
\* the state machine primitives alone
SpecUnit == InitHandedOver /\ [][NextUnit]_vars
\* the builder and build on a freshly constructed controller
SpecBuild == Init /\ [][NextBuild]_vars
\* two contexts in set_enabled
SpecRace == InitHandedOver /\ [][NextRace]_vars

\* reservations, builds with the builder's methods, and the unit primitives,
\* in any order on one controller out of reset
NextGrow ==
    \/ \E code \in { Code(1, 1), Code(2, 5) },
          origin \in { None, Some(0), Some(5) } : AddProgram(code, origin)
    \/ \E id \in { 0, 1 }, enabled \in BOOLEAN : SetEnabled(id, enabled)
    \/ SetClockDivisor(0, 2 * DivScale + 512)
    \/ WithProgram(ProgramC)
    \/ \E id \in { 0, 1 } : Build(id)
SpecGrow == Init /\ [][NextGrow]_vars

\* ------------------------------------------------------------- properties
\* the slots of reservation r
RangeOf(r) == { k \in Slots : k >= r.offset /\ k < r.offset + r.len }

\* the step is a call of add_program (a new call, not a stuttering step)
AddProgramStep == calls' = calls + 1 /\ last'.op = "add_program"

\* the offsets at which len slots are free in the bitmap used
FreeOffsets(used, len) ==
    { o \in 0 .. (PIO_INSTRUCTION_COUNT - len) :
        \A k \in o .. (o + len - 1) : k \notin used }

RECURSIVE TotalLen(_)
TotalLen(h) == IF h = << >> THEN 0 ELSE Head(h).len + TotalLen(Tail(h))

\* C1: the ranges [offset, offset+length) of the successful add_program
\* calls are pairwise disjoint: no slot belongs to two reservations.
C1_ReservationsDisjoint ==
    \A i, j \in 1 .. Len(reservations) :
        i < j => RangeOf(reservations[i]) \cap RangeOf(reservations[j]) = {}

\* C2: with no fixed origin and a length L in 1..32, add_program succeeds
\* exactly when the bitmap has a window of L free slots, and then returns the
\* lowest offset of such a window.
C2_AutoPlacementLowestFit ==
    [][ (AddProgramStep /\ last'.origin = None /\ Len(last'.code) >= 1)
        => LET fits == FreeOffsets(used_instruction_space, Len(last'.code))
           IN  IF fits = {} THEN last'.result = None
                            ELSE last'.result = Some(SetMin(fits)) ]_vars

\* C3: with a fixed origin X and a length L in 1..32, add_program returns X
\* exactly when X+L <= 32 and every slot of [X, X+L) is free in the bitmap;
\* when it does not, the bitmap is unchanged.
C3_FixedOriginIffFree ==
    [][ (AddProgramStep /\ last'.origin.tag = "Some" /\ Len(last'.code) >= 1)
        => LET X == last'.origin.val
               L == Len(last'.code)
               succeeded == (last'.result = Some(X))
           IN  /\ succeeded <=> (X + L <= PIO_INSTRUCTION_COUNT
                                 /\ \A k \in X .. (X + L - 1) :
                                        k \notin used_instruction_space)
               /\ ~succeeded => used_instruction_space' = used_instruction_space
      ]_vars

\* C4: the bitmap is the OR of the ranges of the successful reservations:
\* bit k is set exactly when slot k lies in one of them.
C4_BitmapIsUnionOfRanges ==
    used_instruction_space = ReservedSlots(reservations)

\* C7: once the successful reservations total T words, a request of length L
\* with T + L > 32 returns no offset and leaves the bitmap as it was.
C7_OverCapacityFails ==
    [][ (AddProgramStep /\ Len(last'.code) >= 1
         /\ TotalLen(reservations) + Len(last'.code) > PIO_INSTRUCTION_COUNT)
        => (last'.result = None
            /\ used_instruction_space' = used_instruction_space) ]_vars

\* the step is a call of build (a new call, not a stuttering step)
BuildStep == calls' = calls + 1 /\ last'.op = "build"

\* C5: when build returns NoSpace nothing was mutated: the bitmap, the
\* instruction memory, CTRL and every per-unit register are as before.
C5_NoSpaceMutatesNothing ==
    [][ (BuildStep /\ last'.result = NoSpace)
        => UNCHANGED << used_instruction_space, instr_mem, ctrl, sm_execctrl,
                        sm_pinctrl, sm_shiftctrl, sm_clkdiv, sm_instr, sm_addr >>
      ]_vars

\* C5 witness: build returned NoSpace for a non-empty program, on a unit
\* that an earlier build had started
C5_NoSpaceReturned ==
    /\ last.op = "build" /\ last.result = NoSpace /\ Len(last.code) >= 1
    /\ last.sm \in ctrl.sm_enable
    /\ \E k \in Slots : instr_mem[k] # 0

\* C6: on a fresh controller, the first two builds against one unit, with
\* different programs that each fit the space left free by the reservations
\* made before, succeed, and the unit is then enabled with its program
\* counter at the offset allocated last.
C6_BuildTwiceSucceeds ==
    LET n == Len(build_log) IN
    (/\ n \in 1 .. 2
     /\ last.op = "build"
     /\ \A i \in 1 .. n : build_log[i].sm = build_log[n].sm /\ build_log[i].fit
     /\ \A i, j \in 1 .. n : i < j => build_log[i].code # build_log[j].code)
    => (/\ \A i \in 1 .. n : build_log[i].result.tag = "Ok"
        /\ build_log[n].sm \in ctrl.sm_enable
        /\ sm_addr[build_log[n].sm] = build_log[n].result.val)

\* the step is a call of set_enabled
SetEnabledStep == calls' = calls + 1 /\ last'.op = "set_enabled"

\* C8: set_enabled(b) on unit u makes u's enabled bit b and leaves the
\* enabled bits of the other three units as they were.
C8_SetEnabledOnlyOwnBit ==
    [][ SetEnabledStep
        => /\ (last'.sm \in ctrl'.sm_enable) <=> last'.flag
           /\ \A o \in SMIds \ {last'.sm} :
                  (o \in ctrl'.sm_enable) <=> (o \in ctrl.sm_enable) ]_vars

\* C8 witness: set_enabled(true) on unit 2 with units 0 and 3 enabled and
\* unit 1 disabled
C8_Unit2EnabledSiblingsKept ==
    /\ last.op = "set_enabled" /\ last.sm = 2 /\ last.flag
    /\ ctrl.sm_enable = {0, 2, 3}

AllDone == \A c \in Contexts : ctx[c].pc = "done"
Granted(c) == (ctx[c].id \in ctrl.sm_enable) <=> ctx[c].enabled

\* C9: two contexts in set_enabled for different units, the register read
\* and write being separate steps: when access is exclusive no read overlaps
\* the other call, and when no read overlapped both units end with the
\* values requested; the witness is the interleaving that loses an update.
C9_SerialisedCallsBothGranted ==
    /\ exclusive => ~raced
    /\ (AllDone /\ ~raced) => \A c \in Contexts : Granted(c)

\* C9 witness: both calls returned and one unit's enabled bit is not the
\* value its context asked for
C9_LostUpdate == AllDone /\ \E c \in Contexts : ~Granted(c)

\* C10: for a divisor v, a multiple of 1/256 with 1 <= v < 65536,
\* set_clock_divisor(v) writes int = floor(v) and
\* frac = floor((v - floor(v)) * 256); 1.0 gives (1, 0), 2.5 gives (2, 128).
C10_ClockDivisorEncoding ==
    (/\ last.op = "set_clock_divisor"
     /\ last.q % (DivScale \div 256) = 0
     /\ last.q >= DivScale /\ last.q < 65536 * DivScale)
    => LET r == sm_clkdiv[last.sm]
           rest == last.q - r.int * DivScale
       IN  /\ r.int * DivScale <= last.q /\ last.q < (r.int + 1) * DivScale
           /\ r.frac * DivScale <= rest * 256
           /\ rest * 256 < (r.frac + 1) * DivScale
           /\ last.q = DivScale => r = [int |-> 1, frac |-> 0]
           /\ last.q = 2 * DivScale + (DivScale \div 2)
                  => r = [int |-> 2, frac |-> 128]

\* C10 witness: set_clock_divisor(2.5) wrote (2, 128)
C10_TwoAndAHalf ==
    /\ last.op = "set_clock_divisor"
    /\ last.q = 2 * DivScale + (DivScale \div 2)
    /\ sm_clkdiv[last.sm] = [int |-> 2, frac |-> 128]

\* ------------------------------------------------------ the builder's fields
\* the step is a call of a builder method other than build
BuilderStep(op) == calls' = calls + 1 /\ last'.op = op

\* the join flags (rx, tx) that stand for a FIFO mode
JoinFlags(mode) ==
    CASE mode = "RxTx"   -> << FALSE, FALSE >>
      [] mode = "OnlyTx" -> << FALSE, TRUE >>
      [] mode = "OnlyRx" -> << TRUE, FALSE >>

\* C11: from a fresh builder on, the join-RX and join-TX flags are never
\* both set; a call of buffers(mode) leaves them standing for exactly that
\* mode and every other builder method leaves them as they were, so they
\* stand for the mode of the most recent buffers call; and no SM_SHIFTCTRL
\* register, written by build or not, has both join bits set.
C11_JoinFlagsExclusive ==
    [][ /\ ~(builder.fjoin_rx /\ builder.fjoin_tx)
        /\ ~(builder'.fjoin_rx /\ builder'.fjoin_tx)
        /\ BuilderStep("buffers")
              => << builder'.fjoin_rx, builder'.fjoin_tx >> = JoinFlags(last'.mode)
        /\ (\E op \in { "with_program", "instructions", "wrap", "clock_divisor" } :
               BuilderStep(op))
              => /\ builder'.fjoin_rx = builder.fjoin_rx
                 /\ builder'.fjoin_tx = builder.fjoin_tx
        /\ \A id \in SMIds :
              ~(sm_shiftctrl'[id].fjoin_rx /\ sm_shiftctrl'[id].fjoin_tx)
        /\ (BuildStep /\ last'.result.tag = "Ok")
              => /\ sm_shiftctrl'[last'.sm].fjoin_rx = builder.fjoin_rx
                 /\ sm_shiftctrl'[last'.sm].fjoin_tx = builder.fjoin_tx
      ]_vars

\* C11 witness: a build has written the join bits of a builder whose last
\* buffers call asked for OnlyTx
C11_OnlyTxBuilt ==
    /\ last.op = "build" /\ last.result.tag = "Ok"
    /\ sm_shiftctrl[last.sm].fjoin_tx /\ ~sm_shiftctrl[last.sm].fjoin_rx

\* C12: a freshly constructed builder has wrap (top, bottom) = (0, 31),
\* clock divisor 1.0, autopull and autopush off with both thresholds 32, no
\* FIFO join, no side-set, and every pin base and pin count 0 except the out
\* pin count, which is 32.
C12_FreshBuilderDefaults ==
    [][ BuilderStep("default")
        => /\ << builder'.wrap_top, builder'.wrap_bottom >> = << 0, 31 >>
           /\ builder'.clock_divisor = 1 * DivScale
           /\ ~builder'.autopull /\ ~builder'.autopush
           /\ builder'.pull_thresh = 32 /\ builder'.push_thresh = 32
           /\ ~builder'.fjoin_rx /\ ~builder'.fjoin_tx
           /\ ~builder'.side_en /\ ~builder'.side_pindir
           /\ builder'.sideset_count = 0 /\ builder'.sideset_base = 0
           /\ builder'.in_base = 0
           /\ builder'.out_base = 0 /\ builder'.out_count = 32
           /\ builder'.set_base = 0 /\ builder'.set_count = 0
      ]_vars

\* C12 witness: a builder was constructed anew after another one had been
\* consumed by build
C12_FreshAfterBuild ==
    /\ last.op = "default" /\ build_log # << >>
    /\ builder.out_count = 32 /\ builder.wrap_bottom = 31

\* the direction a shift direction flag stands for: true shifts to the right
\* (line 234), which is toward the least significant bit
ShiftDirection(flag) == IF flag THEN "toward_lsb" ELSE "toward_msb"

WrittenRegs == [i \in 1 .. Len(writes) |-> writes[i].reg]

\* C14: a successful build writes, all to its own unit, in this order: the
\* disabling of the unit; SM_EXECCTRL, SM_PINCTRL, SM_SHIFTCTRL and the
\* clock divisor; the restart and the clock divider restart; the forced
\* jump; and last the enabling of the unit. The unit's enabled bit is clear
\* at every write between the disabling and the enabling.
C14_BuildWriteOrder ==
    (last.op = "build" /\ last.result.tag = "Ok")
    => /\ WrittenRegs = << "disable", "execctrl", "pinctrl", "shiftctrl",
                           "clkdiv", "restart", "reset_clock", "instr",
                           "enable" >>
       /\ \A i \in 1 .. Len(writes) :
             /\ writes[i].sm = last.sm
             /\ writes[i].reg \notin { "disable", "enable" } => ~writes[i].en

\* C14 witness: a successful build on a unit that was running when the
\* build began
C14_RunningUnitRebuilt ==
    /\ last.op = "build" /\ last.result.tag = "Ok"
    /\ Len(writes) >= 1 /\ writes[1].reg = "disable" /\ writes[1].en

\* C15: a successful build leaves its own unit enabled and the enabled bits
\* of the three other units as they were; so after a successful build on
\* unit A and then one on unit B, both A and B are enabled.
C15_BuildKeepsOtherUnits ==
    [][ (BuildStep /\ last'.result.tag = "Ok")
        => /\ last'.sm \in ctrl'.sm_enable
           /\ \A o \in SMIds \ { last'.sm } :
                 (o \in ctrl'.sm_enable) <=> (o \in ctrl.sm_enable)
      ]_vars

\* ------------------------------------------------- the full size reservation
\* C16: add_program of exactly 32 words into empty instruction memory
\* (no origin, or origin 0) returns offset 0 and marks all 32 slots used in
\* the bitmap; and once a 32 word reservation has succeeded, every
\* add_program of one word or more returns None.
C16_FullReservationFillsBitmap ==
    [][ AddProgramStep
        => /\ ( /\ Len(last'.code) = PIO_INSTRUCTION_COUNT
                /\ last'.origin \in { None, Some(0) }
                /\ used_instruction_space = {} /\ reservations = << >> )
              => /\ last'.result = Some(0)
                 /\ used_instruction_space' = Slots
           /\ ( /\ Len(last'.code) >= 1
                /\ \E i \in 1 .. Len(reservations) :
                      reservations[i].len = PIO_INSTRUCTION_COUNT )
              => last'.result = None
      ]_vars

\* C17: an add_program that returns offset o for L words writes word i to
\* slot o + i for every i in 0 .. L-1, every such slot is one of the 32
\* slots, and every slot outside o .. o+L-1 keeps the word it held.
C17_WritesOnlyReservedWindow ==
    [][ (AddProgramStep /\ last'.result.tag = "Some")
        => LET o == last'.result.val
               L == Len(last'.code)
           IN  /\ \A i \in 0 .. (L - 1) :
                     /\ o + i \in Slots
                     /\ instr_mem'[o + i] = last'.code[i + 1]
               /\ \A k \in Slots :
                     (k < o \/ k >= o + L) => instr_mem'[k] = instr_mem[k]
      ]_vars

\* C17 witness: five words were placed at offset 27, up to the last slot,
\* and a word placed at slot 5 before is still there
C17_PlacedAtTop ==
    /\ last.op = "add_program" /\ last.result = Some(27)
    /\ Len(last.code) = 5 /\ instr_mem[31] = last.code[5]
    /\ instr_mem[5] # 0 /\ instr_mem[0] = 0

\* ------------------------------------------------------- the wrap addresses
\* C18 as stated: in every successful build the wrap top and wrap bottom
\* written to SM_EXECCTRL are the offset returned by the build's reservation
\* plus the builder's wrap top, and that offset plus the builder's wrap
\* bottom.
C18_WrapIsOffsetPlusBound ==
    [][ (BuildStep /\ last'.result.tag = "Ok")
        => /\ sm_execctrl'[last'.sm].wrap_top
                 = last'.result.val + builder.wrap_top
           /\ sm_execctrl'[last'.sm].wrap_bottom
                 = last'.result.val + builder.wrap_bottom
      ]_vars

\* C18 amended: in every successful build the wrap top and wrap bottom
\* written to SM_EXECCTRL are the offset returned by the build's reservation
\* plus the builder's wrap top, respectively wrap bottom, modulo 32: the sum
\* as the five bit field keeps it, which is the sum itself when that is at
\* most 31.
C18_WrapIsOffsetPlusBoundMod32 ==
    [][ (BuildStep /\ last'.result.tag = "Ok")
        => LET top == last'.result.val + builder.wrap_top
               bottom == last'.result.val + builder.wrap_bottom
           IN  /\ sm_execctrl'[last'.sm].wrap_top = top % PIO_INSTRUCTION_COUNT
               /\ sm_execctrl'[last'.sm].wrap_bottom = bottom % PIO_INSTRUCTION_COUNT
               /\ top < PIO_INSTRUCTION_COUNT
                     => sm_execctrl'[last'.sm].wrap_top = top
               /\ bottom < PIO_INSTRUCTION_COUNT
                     => sm_execctrl'[last'.sm].wrap_bottom = bottom
      ]_vars

\* C18 witness: a build succeeded after wrap(40, 3), and SM_EXECCTRL holds
\* wrap top 8 and wrap bottom 3
C18_WrapPastMemoryBuilt ==
    /\ last.op = "build" /\ last.result.tag = "Ok"
    /\ sm_execctrl[last.sm].wrap_top = 8
    /\ sm_execctrl[last.sm].wrap_bottom = 3

\* ---------------------------------------------------- the bitmap over time
\* C19: across reservations (successful or not), builds and unit primitives
\* the bitmap only grows: a bit that is set stays set, and a bit goes from
\* clear to set only in a step that is a successful reservation, made by
\* add_program or by the add_program of a build.
C19_BitmapOnlyGrows ==
    [][ /\ used_instruction_space \subseteq used_instruction_space'
        /\ used_instruction_space' # used_instruction_space
              => /\ AddProgramStep \/ BuildStep
                 /\ Len(reservations') = Len(reservations) + 1
                 /\ AddProgramStep => last'.result.tag = "Some"
      ]_vars

\* C19 witness: slots are marked used, and the calls made since, a failed
\* reservation among them, have left the marks in place
C19_MarksKeptAfterFailure ==
    /\ used_instruction_space # {}
    /\ last.op = "add_program" /\ last.result = None
    /\ Len(reservations) >= 2

\* ------------------------------------------------------------ with_program
\* the builder fields with_program does not set
KeptByWithProgram ==
    { "instruction_offset", "jmp_pin", "out_sticky", "inline_out_en",
      "out_en_sel", "status_sel", "in_base", "out_base", "out_count",
      "set_base", "set_count", "sideset_base", "fjoin_rx", "fjoin_tx",
      "autopull", "autopush", "pull_thresh", "push_thresh", "in_shiftdir",
      "out_shiftdir", "clock_divisor" }

\* C20: with_program(p) sets the builder's instructions to p's code, its
\* wrap top and wrap bottom to p's wrap bounds, its side-set enable flag to
\* p's optional flag, its side-set pindir flag to p's pindirs flag and its
\* side-set pin count to p's side-set bit width, and leaves every other
\* field of the builder as it was.
C20_WithProgramFrame ==
    [][ BuilderStep("with_program")
        => LET p == last'.prog
           IN  /\ builder'.instructions = p.code
               /\ builder'.wrap_top = p.wrap[1]
               /\ builder'.wrap_bottom = p.wrap[2]
               /\ builder'.side_en = p.side_set.optional
               /\ builder'.side_pindir = p.side_set.pindirs
               /\ builder'.sideset_count = p.side_set.bits
               /\ DOMAIN builder' = DOMAIN builder
               /\ \A f \in KeptByWithProgram : builder'[f] = builder[f]
      ]_vars

\* C20 witness: with_program was given the program with a two bit optional
\* side-set and wrap (1, 3), on a builder whose FIFO mode and clock
\* divisor had been set before
C20_ProgramBTakenOver ==
    /\ last.op = "with_program" /\ last.prog = ProgramB
    /\ builder.sideset_count = 2 /\ builder.side_en
    /\ builder.wrap_top = 1 /\ builder.wrap_bottom = 3
    /\ builder.fjoin_rx /\ builder.clock_divisor # DivScale

====
